---------------------------- MODULE Spec2Model ----------------------------
(***************************************************************************)
(* A model of go-fanbox: the authenticated fetcher (SessionClient.get),    *)
(* the driver loop (main), the paginator (app.poll), the download          *)
(* scheduler (app.downloadPage with its download goroutines), the          *)
(* temp-file write protocol (writeTmp) and the path sanitizer.             *)
(*                                                                         *)
(* Three specifications:                                                   *)
(*   SpecPath the item directory computed from a creator id and a title    *)
(*            drawn from the short strings over a small alphabet;          *)
(*   SpecGet  one call of SessionClient.get against a server whose answer  *)
(*            to each attempt is chosen freely;                            *)
(*   Spec     the process: main, poll, downloadPage, the download tasks    *)
(*            and the file system.  The two calls into the fanbox package  *)
(*            (Session.PostsFromURL and Session.Download) appear in Spec   *)
(*            by their signature, a page or an error and a body or an      *)
(*            error: either result may come back.  What get itself         *)
(*            returns is the subject of SpecGet.                           *)
(***************************************************************************)
EXTENDS Integers, Sequences, FiniteSets, Bags, TLC

(***************************************************************************)
(* Bounds of the model.                                                    *)
(***************************************************************************)
MaxRetriesBound == 2
MaxPageBehindBound == 2
MaxParallelSetting == 1
GetRetriesBound == 3
MaxPartLen == 2

(***************************************************************************)
(* Small values.                                                           *)
(***************************************************************************)
Nil == [kind |-> "nil", page |-> 0 - 1]

(***************************************************************************)
(* The sanitizer (a strings.Replacer: "/" becomes space, U+2215, space;    *)
(* the zero byte is dropped) applied to a string, a string being a         *)
(* sequence of characters; "DIVSLASH" is U+2215 and "NUL" the zero byte.   *)
(***************************************************************************)
sanitizeChar(c) ==
    IF c = "/" THEN <<" ", "DIVSLASH", " ">>
    ELSE IF c = "NUL" THEN <<>>
    ELSE <<c>>

RECURSIVE sanitizePath(_)
sanitizePath(part) ==
    IF part = <<>> THEN <<>>
    ELSE sanitizeChar(Head(part)) \o sanitizePath(Tail(part))

(***************************************************************************)
(* filepath.Join of names below DestDir, a path being the sequence of its  *)
(* names: an empty name is ignored and the result is cleaned, "." dropped  *)
(* and ".." taking away the name before it, or staying where there is none *)
(* (the path then leaves DestDir).                                         *)
(***************************************************************************)
Dot == <<".">>
DotDot == <<".", ".">>

RECURSIVE Join(_)
Join(names) ==
    IF names = <<>> THEN <<>>
    ELSE LET before == Join(SubSeq(names, 1, Len(names) - 1))
             name == names[Len(names)]
         IN  IF name = <<>> \/ name = Dot THEN before
             ELSE IF name = DotDot
             THEN IF before # <<>> /\ before[Len(before)] # DotDot
                  THEN SubSeq(before, 1, Len(before) - 1)
                  ELSE Append(before, DotDot)
             ELSE Append(before, name)

(***************************************************************************)
(* filepath.Base of a URL, a URL being the sequence of its path segments.  *)
(***************************************************************************)
Base(url) == IF url = <<>> THEN "." ELSE url[Len(url)]

(***************************************************************************)
(* The configuration (Config): ALLOW_FILE_EXTS keeps its default.          *)
(***************************************************************************)
AllowFileExts == {"gif", "mp4"}

\* for _, cw := range w { if cw == word { return true } }; return false
IncludeAny(words, word) == TRUE

Include(words, word) == word \in words

(***************************************************************************)
(* The listing the server serves, fixed for a whole behaviour, is one of    *)
(* two.  "feed": the supporting-listing endpoint and the older page its    *)
(* cursor names; the first page holds a file item with one allowed and one *)
(* filtered file, an image item with two images and an article, the second *)
(* only items downloadPage skips: a file item with no allowed file and an  *)
(* item of unknown type.  "single": one page without next cursor, with one *)
(* image item whose image URL ends in the segment "info".                  *)
(***************************************************************************)
VARIABLE site     \* which listing the server serves

SupportingURL == "post.listSupporting"

Att(id, url, ext) == [id |-> id, url |-> url, ext |-> ext]

Item(id, type, creator, date, title, atts) ==
    [id |-> id, type |-> type, creator |-> creator, date |-> date, title |-> title,
     atts |-> atts]

Feed ==
    [u \in {SupportingURL, "cursor1"} |->
        IF u = SupportingURL
        THEN [Items |-> <<
                Item("i1", "file", <<"k">>, "2021-01-02", <<"s", "/", "t">>,
                     <<Att("a", <<"files", "a.mp4">>, "mp4"),
                       Att("z", <<"files", "z.zip">>, "zip")>>),
                Item("i2", "image", <<"k">>, "2021-01-01", <<"u">>,
                     <<Att("b", <<"img", "b.png">>, "png"),
                       Att("c", <<"img", "c.png">>, "png")>>),
                Item("i3", "article", <<"m">>, "2020-12-03", <<"v">>, <<>>) >>,
              NextURL |-> "cursor1"]
        ELSE [Items |-> <<
                Item("i4", "file", <<"m">>, "2020-12-02", <<"w">>,
                     <<Att("e", <<"files", "e.zip">>, "zip")>>),
                Item("i5", "video", <<"m">>, "2020-12-01", <<"x">>, <<>>) >>,
              NextURL |-> ""]]

Single ==
    [u \in {SupportingURL} |->
        [Items |-> <<
            Item("i6", "image", <<"n">>, "2021-02-01", <<"y">>,
                 <<Att("f", <<"img", "info">>, "png")>>) >>,
         NextURL |-> ""]]

Listings == {"feed", "single"}

Served == [n \in Listings |-> IF n = "feed" THEN Feed ELSE Single]

Site == Served[site]

PageURLs == DOMAIN Site

ItemsOf(listing) ==
    UNION {{listing[u].Items[k] : k \in DOMAIN listing[u].Items} : u \in DOMAIN listing}

Catalog == UNION {ItemsOf(Served[n]) : n \in Listings}

(***************************************************************************)
(* downloadPage's type switch and extension filter: the attachments whose  *)
(* URL goes into urls.                                                     *)
(***************************************************************************)
URLsOf(item) ==
    CASE item.type = "image" -> item.atts
      [] item.type = "file" ->
            SelectSeq(item.atts, LAMBDA f : Include(AllowFileExts, f.ext))
      [] OTHER -> <<>>

(***************************************************************************)
(* The item's directory below DestDir: the sanitized creator id, then the   *)
(* date, ": " and the sanitized title.                                     *)
(***************************************************************************)
DirOf(creator, date, title) ==
    Join(<<sanitizePath(creator), <<date, ": ">> \o sanitizePath(title)>>)

ItemDirs == [i \in Catalog |-> DirOf(i.creator, i.date, i.title)]

ItemDir(item) == ItemDirs[item]

AllItems == ItemsOf(Site)

DownloadableOf(listing) == {i \in ItemsOf(listing) : URLsOf(i) # <<>>}

DownloadableOn == [n \in Listings |-> DownloadableOf(Served[n])]

Downloadable == DownloadableOn[site]

AttNames(item) == {Base(URLsOf(item)[k].url) : k \in DOMAIN URLsOf(item)}

\* the paths the program stats, creates or renames onto
PathsOn ==
    [n \in Listings |->
        UNION {{<<ItemDir(i), m>> : m \in AttNames(i) \cup {"info"}} :
               i \in DownloadableOn[n]}]

Paths == PathsOn[site]

NoFile == [kind |-> "none", of |-> ""]
BodyOf(att) == [kind |-> "body", of |-> att]
TextOf(item) == [kind |-> "text", of |-> item]
Partial(of) == [kind |-> "partial", of |-> of]

VARIABLES
    cfg,          \* Config: MaxParallel, MaxRetries, MaxPageBehind
    \* the path sanitizer
    pin,          \* a creator id and a title
    pout,         \* what sanitizePath makes of them, and the item directory
    \* SessionClient.get
    gpc,          \* "loop" | "returned"
    gi,           \* the loop counter i
    gerr,         \* err
    gbody,        \* body: the attempt whose r.Body it is, and whether it is open
    gn,           \* requests issued so far
    glast,        \* the server's answer to the latest request
    g2xx,         \* the first request answered with a 2xx status, 0 for none
    \* main and poll
    pc,           \* where the main goroutine is
    first,        \* the poll running is main's initial one
    fetchAll,     \* poll's argument
    page,         \* poll's page counter
    lastPage,     \* the URL lastPage came from, "" for nil
    pollErr,      \* what poll returned
    \* downloadPage
    it,           \* index of the item in page.Body.Items
    ui,           \* index of the url in urls
    fetchedItems,
    lastFetched,
    wtmp,         \* the temp file of the writeText call in hand or just returned:
                  \* "none" | "partial" | "full" | "stuck", a partial file that
                  \* os.Remove did not remove
    \* shared
    held,         \* slots of c.sema taken
    tasks,        \* the download goroutines running, a bag
    fs,           \* the files below DestDir
    dirs,         \* the directories below DestDir
    \* history
    fetches,      \* the listing fetches of the poll running: url and outcome
    atStart,      \* what was on disk when the poll running started
    run,          \* the downloadPage call running or last returned; rerun: it began
                  \* with no task running, on the page of the call before it;
                  \* found: the URLs of the item in hand that os.Stat found
    clean         \* no download or write has failed since the last call began

fixedVars == <<cfg, site, pin, pout>>
getVars == <<gpc, gi, gerr, gbody, gn, glast, g2xx>>
mainVars == <<pc, first, fetchAll, page, lastPage, pollErr>>
dlVars == <<it, ui, fetchedItems, lastFetched, wtmp>>
diskVars == <<fs, dirs>>
histVars == <<fetches, atStart, run, clean>>
procVars == <<mainVars, dlVars, held, tasks, diskVars, histVars>>
vars == <<fixedVars, getVars, procVars>>

(***************************************************************************)
(* The creator ids and titles the sanitizer is tried on: the strings of up *)
(* to MaxPartLen characters, among them the separator, the zero byte and   *)
(* the dot.                                                                *)
(***************************************************************************)
PathChars == {"a", "/", "NUL", "."}

Parts == UNION {[1..n -> PathChars] : n \in 0..MaxPartLen}

NoInput == [creator |-> <<>>, title |-> <<>>]
NoPath == [creator |-> <<>>, title |-> <<>>, dir |-> <<>>]

PathIdle == pin = NoInput /\ pout = NoPath

\* dir := filepath.Join(c.DestDir, sanitizePath(item.CreatorID), ...)
SanitizeItemDir ==
    /\ pout = NoPath
    /\ pout' = [creator |-> sanitizePath(pin.creator),
                title |-> sanitizePath(pin.title),
                dir |-> DirOf(pin.creator, "2021-01-02", pin.title)]
    /\ UNCHANGED <<cfg, site, pin, getVars, procVars>>

Configs ==
    [MaxParallel : {MaxParallelSetting},
     MaxRetries : 0..MaxRetriesBound,
     MaxPageBehind : 0..MaxPageBehindBound]

(***************************************************************************)
(* SessionClient.get.  The server answers each request with a transport    *)
(* error or with a response: a status, a body, and whether reading the     *)
(* body to its end succeeds.                                               *)
(***************************************************************************)
Statuses == {199, 200, 299, 300, 404}
BodyTexts == {"x", "y"}

Outcomes ==
    {[kind |-> "transport", status |-> 0, body |-> "", readOK |-> FALSE]} \cup
    [kind : {"resp"}, status : Statuses, body : BodyTexts, readOK : BOOLEAN]

NoOutcome == [kind |-> "none", status |-> 0, body |-> "", readOK |-> FALSE]

NoErr == [kind |-> "nil", code |-> 0, body |-> ""]
ErrDo == [kind |-> "do", code |-> 0, body |-> ""]
ErrStatus(code) == [kind |-> "status", code |-> code, body |-> ""]
ErrStatusBody(code, b) == [kind |-> "statusbody", code |-> code, body |-> b]

NoBody == [of |-> 0, open |-> FALSE]

\* for i := -1; i < sc.Retries; i++
GetLoopCondOffByOne(i, retries) == i <= retries

GetLoopCond(i, retries) == i < retries

\* if true || r.StatusCode < 200 || r.StatusCode > 299
StatusFails(code) == TRUE \/ code < 200 \/ code > 299

Is2xx(code) == code >= 200 /\ code <= 299

GetInit ==
    /\ gpc = "loop"
    /\ gi = -1
    /\ gerr = NoErr
    /\ gbody = NoBody
    /\ gn = 0
    /\ glast = NoOutcome
    /\ g2xx = 0

GetAttempt ==
    /\ gpc = "loop"
    /\ GetLoopCond(gi, cfg.MaxRetries)
    /\ \E o \in Outcomes :
        /\ gn' = gn + 1
        /\ glast' = o
        /\ g2xx' = IF g2xx = 0 /\ o.kind = "resp" /\ Is2xx(o.status) THEN gn + 1 ELSE g2xx
        /\ IF o.kind = "transport"
           THEN /\ gerr' = ErrDo
                /\ gbody' = gbody
                /\ gi' = gi + 1
                /\ gpc' = "loop"
           ELSE IF StatusFails(o.status)
           THEN /\ gbody' = [of |-> gn + 1, open |-> FALSE]
                /\ gerr' = IF o.readOK THEN ErrStatusBody(o.status, o.body)
                                       ELSE ErrStatus(o.status)
                /\ gi' = gi + 1
                /\ gpc' = "loop"
           ELSE /\ gbody' = [of |-> gn + 1, open |-> TRUE]
                /\ gerr' = NoErr
                /\ gi' = gi
                /\ gpc' = "returned"
    /\ UNCHANGED <<fixedVars, procVars>>

GetReturn ==
    /\ gpc = "loop"
    /\ ~GetLoopCond(gi, cfg.MaxRetries)
    /\ gpc' = "returned"
    /\ UNCHANGED <<fixedVars, gi, gerr, gbody, gn, glast, g2xx, procVars>>

(***************************************************************************)
(* The file system below DestDir.  An earlier run of the program may have  *)
(* left items behind: for each item of synced, its directory, its          *)
(* attachments and its info file.                                          *)
(***************************************************************************)
Old(of) == [kind |-> "old", of |-> of]

DiskAfter(synced) ==
    [p \in Paths |->
        IF \E i \in synced : p[1] = ItemDir(i) /\ p[2] \in AttNames(i) \cup {"info"}
        THEN Old(p[2])
        ELSE NoFile]

Exists(dir, name) == fs[<<dir, name>>] # NoFile

(***************************************************************************)
(* What the disk holds of a page: of every downloadable item the last      *)
(* attachment, of the last downloadable item every attachment, of every    *)
(* downloadable item every attachment.                                     *)
(***************************************************************************)
PageItems(u) == {Site[u].Items[k] : k \in DOMAIN Site[u].Items}

ItemOnDisk(i) == \A n \in AttNames(i) : Exists(ItemDir(i), n)

LastAttOnDisk(i) ==
    Exists(ItemDir(i), Base(URLsOf(i)[Len(URLsOf(i))].url))

DownloadableIdx(u) == {k \in DOMAIN Site[u].Items : URLsOf(Site[u].Items[k]) # <<>>}

HasDownloadable(u) == DownloadableIdx(u) # {}

LastDownloadable(u) ==
    Site[u].Items[CHOOSE k \in DownloadableIdx(u) : \A j \in DownloadableIdx(u) : j <= k]

EveryLastAttOnDisk(u) == \A i \in PageItems(u) \cap Downloadable : LastAttOnDisk(i)

LastItemOnDisk(u) == HasDownloadable(u) /\ ItemOnDisk(LastDownloadable(u))

PageOnDisk(u) == \A i \in PageItems(u) \cap Downloadable : ItemOnDisk(i)

Snapshot ==
    [lastAtts |-> EveryLastAttOnDisk(SupportingURL),
     lastItem |-> LastItemOnDisk(SupportingURL)]

\* what an earlier run of the program synced: nothing, the newest page's last
\* item, or every item
EarlierRuns == {{}, {LastDownloadable(SupportingURL)}, Downloadable}

NoRun ==
    [url |-> "", lf |-> "none", rerun |-> FALSE, p_lf |-> "none",
     p_clean |-> FALSE, wrote |-> FALSE, found |-> {}]

ProcInit ==
    /\ pc = "start"
    /\ first = TRUE
    /\ fetchAll = TRUE
    /\ page = 0
    /\ lastPage = ""
    /\ pollErr = Nil
    /\ it = 1
    /\ ui = 1
    /\ fetchedItems = 0
    /\ lastFetched = FALSE
    /\ wtmp = "none"
    /\ held = 0
    /\ tasks = EmptyBag
    /\ \E synced \in EarlierRuns :
        /\ fs = DiskAfter(synced)
        /\ dirs = {ItemDir(i) : i \in synced}
    /\ fetches = <<>>
    /\ atStart = [lastAtts |-> FALSE, lastItem |-> FALSE]
    /\ run = NoRun
    /\ clean = TRUE

(***************************************************************************)
(* main: the initial poll, then one poll per tick.                         *)
(***************************************************************************)
PollBegin(all, isFirst) ==
    /\ fetchAll' = all
    /\ first' = isFirst
    /\ page' = 0
    /\ lastPage' = ""
    /\ pollErr' = Nil
    /\ fetches' = <<>>
    /\ atStart' = Snapshot
    /\ pc' = "loop"
    /\ UNCHANGED <<fixedVars, getVars, dlVars, held, tasks, diskVars, run, clean>>

InitialPoll ==
    /\ pc = "start"
    /\ PollBegin(TRUE, TRUE)

\* if err := app.poll(true); err != nil { log.Fatalln(...) }
AfterInitialPoll(err) == IF err # Nil THEN "exited" ELSE "tick"

\* if err := app.poll(false); err != nil { log.Println(...) }
AfterPeriodicPollFatal(err) == IF err # Nil THEN "exited" ELSE "tick"

AfterPeriodicPoll(err) == "tick"

PollReturned ==
    /\ pc = "ret"
    /\ pc' = IF first THEN AfterInitialPoll(pollErr) ELSE AfterPeriodicPoll(pollErr)
    /\ UNCHANGED <<fixedVars, getVars, first, fetchAll, page, lastPage, pollErr,
                   dlVars, held, tasks, diskVars, histVars>>

Tick ==
    /\ pc = "tick"
    /\ PollBegin(FALSE, FALSE)

(***************************************************************************)
(* app.poll.                                                               *)
(***************************************************************************)
\* for page < c.MaxPageBehind
PollLoopCondOffByOne(pg, max) == pg <= max

PollLoopCond(pg, max) == pg < max

\* case page == 0 / case lastPage.Body.NextURL != "" / default: break PageLoop
PollHasPage == IF page = 0 THEN TRUE ELSE Site[lastPage].NextURL # ""

PollNextURL == IF page = 0 THEN SupportingURL ELSE Site[lastPage].NextURL

\* if !fetchAll && lastFetched { break PageLoop }
StopEarlyInverted(all, lf) == all /\ lf

StopEarlyIgnoresFetchAll(all, lf) == lf

StopEarly(all, lf) == ~all /\ lf

PollFinished ==
    /\ pc = "loop"
    /\ ~PollLoopCond(page, cfg.MaxPageBehind) \/ ~PollHasPage
    /\ pollErr' = Nil
    /\ pc' = "ret"
    /\ UNCHANGED <<fixedVars, getVars, first, fetchAll, page, lastPage,
                   dlVars, held, tasks, diskVars, histVars>>

\* fmt.Errorf("failed to get supporting posts page %d: %w", page, err)
FetchErrorNextPage(pg) == [kind |-> "get", page |-> pg + 1]

FetchError(pg) == [kind |-> "get", page |-> pg]

\* the listing fetch returns an error: poll returns it wrapped with the page
PollFetchFailed ==
    /\ pc = "loop"
    /\ PollLoopCond(page, cfg.MaxPageBehind) /\ PollHasPage
    /\ fetches' = Append(fetches, [url |-> PollNextURL, ok |-> FALSE])
    /\ lastPage' = ""
    /\ pollErr' = FetchError(page)
    /\ pc' = "ret"
    /\ UNCHANGED <<fixedVars, getVars, first, fetchAll, page,
                   dlVars, held, tasks, diskVars, atStart, run, clean>>

\* the listing fetch returns a page: downloadPage is called with it
PollFetchPage ==
    /\ pc = "loop"
    /\ PollLoopCond(page, cfg.MaxPageBehind) /\ PollHasPage
    /\ fetches' = Append(fetches, [url |-> PollNextURL, ok |-> TRUE])
    /\ lastPage' = PollNextURL
    /\ it' = 1
    /\ ui' = 1
    /\ fetchedItems' = 0
    /\ lastFetched' = FALSE
    /\ LET rerun == run.lf # "none" /\ run.url = PollNextURL /\ tasks = EmptyBag
       IN  run' = [url |-> PollNextURL, lf |-> "none", rerun |-> rerun,
                   p_lf |-> IF rerun THEN run.lf ELSE "none",
                   p_clean |-> rerun /\ clean, wrote |-> FALSE, found |-> {}]
    /\ clean' = TRUE
    /\ pc' = "item"
    /\ UNCHANGED <<fixedVars, getVars, first, fetchAll, page, pollErr, wtmp,
                   held, tasks, diskVars, atStart>>

(***************************************************************************)
(* app.downloadPage, on the page lastPage.                                 *)
(***************************************************************************)
CurItems == Site[lastPage].Items
CurItem == CurItems[it]
CurURLs == URLsOf(CurItem)
CurDir == ItemDir(CurItem)
CurAtt == CurURLs[ui]

\* lastFetched = fetchedItems == len(urls)
LastFetchedAny(fetched, n) == fetched > 0

LastFetchedAlways(fetched, n) == TRUE

LastFetchedOf(fetched, n) == fetched = n

\* semaphore.NewWeighted(int64(cfg.MaxRetries))
SemaSize(c) == c.MaxRetries

\* continue: the iteration ends before lastFetched is assigned
SkipCounts(lf) == TRUE

SkipKeeps(lf) == lf

\* the default case of the type switch, and len(urls) == 0: continue
ItemSkipped ==
    /\ pc = "item"
    /\ it <= Len(CurItems)
    /\ CurURLs = <<>>
    /\ it' = it + 1
    /\ lastFetched' = SkipKeeps(lastFetched)
    /\ wtmp' = "none"
    /\ UNCHANGED <<fixedVars, getVars, mainVars, ui, fetchedItems,
                   held, tasks, diskVars, histVars>>

\* os.MkdirAll: nil when the directory is there, else it is made or fails
ItemMkdir ==
    /\ pc = "item"
    /\ it <= Len(CurItems)
    /\ CurURLs # <<>>
    /\ \E ok \in BOOLEAN :
        /\ CurDir \in dirs => ok
        /\ IF ok
           THEN /\ dirs' = dirs \cup {CurDir}
                /\ ui' = 1
                /\ fetchedItems' = 0
                /\ run' = [run EXCEPT !.found = {}]
                /\ pc' = "url"
                /\ UNCHANGED pollErr
           ELSE /\ pollErr' = [kind |-> "mkdir", page |-> page]
                /\ pc' = "ret"
                /\ UNCHANGED <<dirs, ui, fetchedItems, run>>
    /\ wtmp' = "none"
    /\ UNCHANGED <<fixedVars, getVars, first, fetchAll, page, lastPage, it, lastFetched,
                   held, tasks, fs, fetches, atStart, clean>>

\* _, err := os.Stat(filepath.Join(dir, name)); if err == nil
StatFoundNever(exists) == FALSE

StatFound(exists) == exists

\* os.Stat finds the file: fetchedItems++, continue
URLFetched ==
    /\ pc = "url"
    /\ ui <= Len(CurURLs)
    /\ StatFound(Exists(CurDir, Base(CurAtt.url)))
    /\ fetchedItems' = fetchedItems + 1
    /\ ui' = ui + 1
    /\ run' = [run EXCEPT !.found = run.found \cup {CurAtt.id}]
    /\ UNCHANGED <<fixedVars, getVars, mainVars, it, lastFetched, wtmp,
                   held, tasks, diskVars, fetches, atStart, clean>>

\* os.Stat does not find it: on to c.sema.Acquire
URLMissing ==
    /\ pc = "url"
    /\ ui <= Len(CurURLs)
    /\ ~StatFound(Exists(CurDir, Base(CurAtt.url)))
    /\ pc' = "acquire"
    /\ UNCHANGED <<fixedVars, getVars, first, fetchAll, page, lastPage, pollErr, dlVars,
                   held, tasks, diskVars, histVars>>

NewTask(dir, att) ==
    [dir |-> dir, name |-> Base(att.url), att |-> att.id, st |-> "fetch", tmp |-> "none"]

\* c.sema.Acquire returns once a slot is free; go func() { ... }()
Acquire ==
    /\ pc = "acquire"
    /\ held < SemaSize(cfg)
    /\ held' = held + 1
    /\ tasks' = tasks (+) SetToBag({NewTask(CurDir, CurAtt)})
    /\ ui' = ui + 1
    /\ run' = [run EXCEPT !.wrote = run.rerun]
    /\ pc' = "url"
    /\ UNCHANGED <<fixedVars, getVars, first, fetchAll, page, lastPage, pollErr,
                   it, fetchedItems, lastFetched, wtmp, diskVars, fetches, atStart, clean>>

(***************************************************************************)
(* writeTmp: create tmp, copy, close, rename tmp onto dst.                 *)
(***************************************************************************)
\* io.Copy failed: f.Close(), os.Remove(tmp), return; else f.Close(), go on
CopyResultNoReturn(ok) ==
    IF ok THEN [st |-> "rename", tmp |-> "full"]
          ELSE [st |-> "rename", tmp |-> "partial"]

CopyResult(ok) ==
    IF ok THEN [st |-> "rename", tmp |-> "full"]
          ELSE [st |-> "done", tmp |-> "partial"]

\* os.Remove(tmp), its error dropped: the temp file is gone, or it stays
RemoveSkipped(removed) == "partial"

RemoveResult(removed) == IF removed THEN "none" ELSE "stuck"

\* os.Rename(tmp, dst): dst becomes what tmp holds
Renamed(tmp, whole) == IF tmp = "full" THEN whole ELSE Partial(whole.of)

(***************************************************************************)
(* writeText(dir, "info", text), then lastFetched and the next item.       *)
(***************************************************************************)
\* _, err := os.Stat(...); if err == nil { return nil }
WriteTextSkipsNever(exists) == FALSE

WriteTextSkips(exists) == exists

ItemDone ==
    /\ lastFetched' = LastFetchedOf(fetchedItems, Len(CurURLs))
    /\ it' = it + 1
    /\ pc' = "item"

\* if err := writeText(dir, "info", text); err != nil { log.Println(...) }
InfoFailureReturns(next) == "ret"

InfoFailure(next) == next

ItemDoneAfter(ok) ==
    /\ lastFetched' = LastFetchedOf(fetchedItems, Len(CurURLs))
    /\ it' = it + 1
    /\ pc' = IF ok THEN "item" ELSE InfoFailure("item")

WriteTextFound ==
    /\ pc = "url"
    /\ ui > Len(CurURLs)
    /\ WriteTextSkips(Exists(CurDir, "info"))
    /\ ItemDone
    /\ UNCHANGED <<fixedVars, getVars, first, fetchAll, page, lastPage, pollErr,
                   ui, fetchedItems, wtmp, held, tasks, diskVars, histVars>>

\* os.Create(tmp)
WriteTextCreate ==
    /\ pc = "url"
    /\ ui > Len(CurURLs)
    /\ ~WriteTextSkips(Exists(CurDir, "info"))
    /\ run' = [run EXCEPT !.wrote = run.rerun]
    /\ \E ok \in BOOLEAN :
        IF ok
        THEN /\ wtmp' = "partial"
             /\ pc' = "infocopy"
             /\ UNCHANGED <<it, lastFetched, clean>>
        ELSE /\ clean' = FALSE
             /\ ItemDoneAfter(FALSE)
             /\ UNCHANGED wtmp
    /\ UNCHANGED <<fixedVars, getVars, first, fetchAll, page, lastPage, pollErr,
                   ui, fetchedItems, held, tasks, diskVars, fetches, atStart>>

\* io.Copy(f, r)
WriteTextCopy ==
    /\ pc = "infocopy"
    /\ \E ok, removed \in BOOLEAN :
        /\ ok => removed
        /\ IF CopyResult(ok).st = "rename"
           THEN /\ wtmp' = CopyResult(ok).tmp
                /\ pc' = "inforename"
                /\ UNCHANGED <<it, lastFetched>>
           ELSE /\ wtmp' = RemoveResult(removed)
                /\ ItemDoneAfter(FALSE)
        /\ clean' = (clean /\ ok)
    /\ UNCHANGED <<fixedVars, getVars, first, fetchAll, page, lastPage, pollErr,
                   ui, fetchedItems, held, tasks, diskVars, fetches, atStart, run>>

\* os.Rename(tmp, dst)
WriteTextRename ==
    /\ pc = "inforename"
    /\ \E ok \in BOOLEAN :
        /\ fs' = IF ok
                 THEN [fs EXCEPT ![<<CurDir, "info">>] = Renamed(wtmp, TextOf(CurItem.id))]
                 ELSE fs
        /\ clean' = (clean /\ ok)
        /\ ItemDoneAfter(ok)
        /\ wtmp' = IF ok THEN "none" ELSE wtmp
    /\ UNCHANGED <<fixedVars, getVars, first, fetchAll, page, lastPage, pollErr,
                   ui, fetchedItems, held, tasks, dirs, fetches, atStart, run>>

\* downloadPage returns (lastFetched, nil); poll breaks or goes to the next page
PageDone ==
    /\ pc = "item"
    /\ it > Len(CurItems)
    /\ run' = [run EXCEPT !.lf = IF lastFetched THEN "true" ELSE "false"]
    /\ IF StopEarly(fetchAll, lastFetched)
       THEN /\ pollErr' = Nil
            /\ pc' = "ret"
            /\ UNCHANGED page
       ELSE /\ page' = page + 1
            /\ pc' = "loop"
            /\ UNCHANGED pollErr
    /\ wtmp' = "none"
    /\ UNCHANGED <<fixedVars, getVars, first, fetchAll, lastPage, it, ui, fetchedItems,
                   lastFetched, held, tasks, diskVars, fetches, atStart, clean>>

(***************************************************************************)
(* A download goroutine: c.session.Download, downloadFile, and the         *)
(* deferred c.sema.Release(1).                                             *)
(***************************************************************************)
Running == pc # "exited"

\* defer c.sema.Release(1)
SemaReleaseNone(h) == h

SemaRelease(h) == h - 1

TaskEnds(t) ==
    /\ tasks' = tasks (-) SetToBag({t})
    /\ held' = SemaRelease(held)

TaskMoves(t, st, tmp) ==
    /\ tasks' = (tasks (-) SetToBag({t})) (+) SetToBag({[t EXCEPT !.st = st, !.tmp = tmp]})
    /\ held' = held

\* Download fails, or os.Create(tmp) fails, or the copy can begin
TaskDownload(t) ==
    /\ Running
    /\ t.st = "fetch"
    /\ \E r \in {"download failed", "create failed", "ok"} :
        IF r = "ok"
        THEN TaskMoves(t, "copy", "partial") /\ UNCHANGED clean
        ELSE TaskEnds(t) /\ clean' = FALSE
    /\ UNCHANGED <<fixedVars, getVars, mainVars, dlVars, diskVars, fetches, atStart, run>>

\* what is left of a task's temp file leaves the model with the task
TaskCopy(t) ==
    /\ Running
    /\ t.st = "copy"
    /\ \E ok \in BOOLEAN :
        /\ IF CopyResult(ok).st = "rename"
           THEN TaskMoves(t, "rename", CopyResult(ok).tmp)
           ELSE TaskEnds(t)
        /\ clean' = (clean /\ ok)
    /\ UNCHANGED <<fixedVars, getVars, mainVars, dlVars, diskVars, fetches, atStart, run>>

TaskRename(t) ==
    /\ Running
    /\ t.st = "rename"
    /\ \E ok \in BOOLEAN :
        /\ fs' = IF ok
                 THEN [fs EXCEPT ![<<t.dir, t.name>>] = Renamed(t.tmp, BodyOf(t.att))]
                 ELSE fs
        /\ clean' = (clean /\ ok)
    /\ TaskEnds(t)
    /\ UNCHANGED <<fixedVars, getVars, mainVars, dlVars, dirs, fetches, atStart, run>>

(***************************************************************************)
(* The specifications.                                                     *)
(***************************************************************************)
GetIdle ==
    /\ gpc = "returned"
    /\ gi = -1
    /\ gerr = NoErr
    /\ gbody = NoBody
    /\ gn = 0
    /\ glast = NoOutcome
    /\ g2xx = 0

Init ==
    /\ cfg \in Configs
    /\ site \in Listings
    /\ PathIdle
    /\ GetIdle
    /\ ProcInit

Next ==
    \/ InitialPoll
    \/ PollReturned
    \/ Tick
    \/ PollFinished
    \/ PollFetchFailed
    \/ PollFetchPage
    \/ ItemSkipped
    \/ ItemMkdir
    \/ URLFetched
    \/ URLMissing
    \/ Acquire
    \/ WriteTextFound
    \/ WriteTextCreate
    \/ WriteTextCopy
    \/ WriteTextRename
    \/ PageDone
    \/ \E t \in BagToSet(tasks) : TaskDownload(t)
    \/ \E t \in BagToSet(tasks) : TaskCopy(t)
    \/ \E t \in BagToSet(tasks) : TaskRename(t)

Spec == Init /\ [][Next]_vars

(***************************************************************************)
(* Scheduling.  Every call main's goroutine makes returns, so main's       *)
(* goroutine takes its next step whenever it has one: that leaves it       *)
(* waiting in c.sema.Acquire (context.Background() is never done) and      *)
(* nowhere else.  The Go scheduler runs every runnable goroutine, so a     *)
(* download goroutine takes a step as long as there is one.                *)
(***************************************************************************)
MainStep ==
    \/ InitialPoll \/ PollReturned \/ Tick
    \/ PollFinished \/ PollFetchFailed \/ PollFetchPage
    \/ ItemSkipped \/ ItemMkdir \/ URLFetched \/ URLMissing \/ Acquire
    \/ WriteTextFound \/ WriteTextCreate \/ WriteTextCopy \/ WriteTextRename
    \/ PageDone

TaskStep == \E t \in BagToSet(tasks) : TaskDownload(t) \/ TaskCopy(t) \/ TaskRename(t)

SpecFair == Spec /\ WF_vars(MainStep) /\ WF_vars(TaskStep)

InitGet ==
    /\ cfg \in [MaxParallel : {1}, MaxRetries : 0..GetRetriesBound, MaxPageBehind : {0}]
    /\ site = "feed"
    /\ PathIdle
    /\ GetInit
    /\ ProcInit
    /\ fs = DiskAfter({})

NextGet ==
    \/ GetAttempt
    \/ GetReturn

SpecGet == InitGet /\ [][NextGet]_vars

InitPath ==
    /\ cfg \in [MaxParallel : {1}, MaxRetries : {0}, MaxPageBehind : {0}]
    /\ site = "feed"
    /\ pin \in [creator : Parts, title : Parts]
    /\ pout = NoPath
    /\ GetIdle
    /\ ProcInit
    /\ fs = DiskAfter({})

NextPath == SanitizeItemDir

SpecPath == InitPath /\ [][NextPath]_vars

(***************************************************************************)
(* The claims.                                                             *)
(***************************************************************************)
InFlight == BagCardinality(tasks)

\* C1: at no point are more than MaxParallel attachment downloads in flight.
C1_InFlightAtMostMaxParallel == InFlight <= cfg.MaxParallel

\* C2: the file at a destination path is never partially written: it is absent,
\* what an earlier run left, or a completely copied body or text; and only a
\* temp file whose copy finished without error is renamed onto a destination.
C2_AtomicWrite ==
    /\ \A p \in Paths : fs[p].kind \in {"none", "old", "body", "text"}
    /\ \A t \in BagToSet(tasks) : t.st = "rename" => t.tmp = "full"
    /\ pc = "inforename" => wtmp = "full"

\* a write cut off by the process exiting in mid-copy, beside a finished one
C2_Witness ==
    /\ pc = "exited"
    /\ \E t \in BagToSet(tasks) :
        t.st = "copy" /\ t.tmp = "partial" /\ ~Exists(t.dir, t.name)
    /\ \E p \in Paths : fs[p].kind = "body"

AllAttemptsFailed == gpc = "returned" /\ g2xx = 0

\* what the error returned after a failed last attempt tells of that attempt
ErrorOfAttempt(o) ==
    IF o.kind = "transport" THEN ErrDo
    ELSE IF o.readOK THEN ErrStatusBody(o.status, o.body)
    ELSE ErrStatus(o.status)

\* C3, as amended: against an endpoint whose every attempt fails, get issues
\* exactly Retries + 1 requests and returns a non-nil error, which reports the
\* last attempt's status and body if a response came and its body was read, the
\* status alone if reading the body failed, and the transport error otherwise.
C3_RetryBound ==
    AllAttemptsFailed =>
        /\ gn = cfg.MaxRetries + 1
        /\ gerr # NoErr
        /\ gerr = ErrorOfAttempt(glast)

C3_Witness ==
    /\ AllAttemptsFailed
    /\ cfg.MaxRetries = 2
    /\ gn = 3
    /\ glast.kind = "resp" /\ glast.status = 404 /\ glast.readOK
    /\ gerr = ErrStatusBody(404, glast.body)

\* C3, as claimed: ... and the error reports the last attempt's status code and
\* body.
C3_Original ==
    AllAttemptsFailed =>
        /\ gn = cfg.MaxRetries + 1
        /\ gerr = ErrStatusBody(glast.status, glast.body)

\* C4: once an attempt is answered with a 2xx status the loop ends there: no
\* further request, a nil error, and that response's body returned open.
C4_SuccessEndsLoop ==
    g2xx # 0 =>
        /\ gn = g2xx
        /\ gpc = "returned"
        /\ gerr = NoErr
        /\ gbody = [of |-> g2xx, open |-> TRUE]

PollReturnedFrom(all) == pc = "ret" /\ fetchAll = all

GotFirstPage == fetches # <<>> /\ fetches[1].ok

\* C5, as amended: given fetchAll=false, MaxPageBehind >= 1 and a first page
\* whose last downloadable item has every attachment on disk, poll fetches
\* exactly one page, the supporting listing, and returns nil unless making an
\* item directory failed.
C5_StopCondition ==
    (PollReturnedFrom(FALSE) /\ GotFirstPage /\ atStart.lastItem) =>
        /\ fetches = <<[url |-> SupportingURL, ok |-> TRUE]>>
        /\ pollErr = Nil \/ pollErr = [kind |-> "mkdir", page |-> 0]

C5_Witness ==
    /\ PollReturnedFrom(FALSE) /\ GotFirstPage /\ atStart.lastItem
    /\ cfg.MaxPageBehind = 2
    /\ Len(fetches) = 1
    /\ pollErr = Nil
    /\ ~PageOnDisk(SupportingURL)

\* C5, as claimed: given fetchAll=false and a first page where every item's
\* last attachment is on disk, poll visits exactly one page and returns nil.
C5_Original ==
    (PollReturnedFrom(FALSE) /\ GotFirstPage /\ atStart.lastAtts) =>
        /\ Len(fetches) = 1
        /\ pollErr = Nil

\* poll(false) left the loop by its break on lastFetched, at a page that has a
\* next cursor, with pages still allowed
StoppedEarly ==
    /\ pc = "ret"
    /\ pollErr = Nil
    /\ fetches # <<>>
    /\ page = Len(fetches) - 1
    /\ page + 1 < cfg.MaxPageBehind
    /\ Site[lastPage].NextURL # ""

\* C6, as amended: whenever poll stops early, it ran with fetchAll=false and
\* the page's last downloadable item has every attachment on disk.
C6_EarlyStopLastItem == StoppedEarly => ~fetchAll /\ LastItemOnDisk(lastPage)

C6_Witness == StoppedEarly /\ LastItemOnDisk(lastPage) /\ ~PageOnDisk(lastPage)

\* C6, as claimed: whenever poll stops early, every attachment of every
\* downloadable item of the page is on disk.
C6_Original == StoppedEarly => PageOnDisk(lastPage)

\* a second downloadPage on the same page has returned, begun after every task
\* of the first had ended
SecondRun == run.rerun /\ run.lf # "none"

C8_FullSweep ==
    (PollReturnedFrom(TRUE) /\ pollErr = Nil) =>
        /\ \A k \in DOMAIN fetches : fetches[k].ok
        /\ \/ Len(fetches) = cfg.MaxPageBehind
           \/ fetches # <<>> /\ Site[fetches[Len(fetches)].url].NextURL = ""

\* the sweep went on to the second page although the first page's last item
\* was on disk from the start
C8_Witness ==
    /\ PollReturnedFrom(TRUE) /\ pollErr = Nil
    /\ atStart.lastItem
    /\ Len(fetches) = 2

\* C9: a failed listing fetch of page k is the poll's last act: poll returns
\* the error of page k, downloadPage is not called for it, no later page is
\* fetched; and poll returns nil only with every visited page fetched and
\* processed.
C9_FetchFailureAborts ==
    /\ \A k \in DOMAIN fetches :
        ~fetches[k].ok =>
            /\ k = Len(fetches)
            /\ pc \in {"ret", "tick", "exited"}
            /\ pollErr = [kind |-> "get", page |-> k - 1]
            /\ lastPage = ""
    /\ (pc = "ret" /\ pollErr = Nil /\ fetches # <<>>) =>
            /\ \A k \in DOMAIN fetches : fetches[k].ok
            /\ run.url = fetches[Len(fetches)].url /\ run.lf # "none"

C9_Witness ==
    /\ pc = "ret"
    /\ ~fetchAll
    /\ Len(fetches) = 2
    /\ fetches[1].ok /\ ~fetches[2].ok
    /\ pollErr = [kind |-> "get", page |-> 1]

\* C10: only a failure of the initial poll ends the process; after a failed
\* later poll the process waits for the tick, which starts the next poll.
C10_DriverLoop ==
    /\ pc = "exited" => first /\ pollErr # Nil
    /\ (pc = "tick" /\ first) => pollErr = Nil
    /\ pc = "tick" => ENABLED Tick

C10_Witness == pc = "tick" /\ ~first /\ pollErr # Nil

FileItems == {i \in AllItems : i.type = "file"}

\* the files whose extension is not in the allow-list
FilteredAtts ==
    UNION {{i.atts[k].id : k \in {j \in DOMAIN i.atts : i.atts[j].ext \notin AllowFileExts}} :
           i \in FileItems}

\* the file items all of whose files are filtered
OnlyFiltered == {i \in FileItems : \A k \in DOMAIN i.atts : i.atts[k].id \in FilteredAtts}

\* C11: a file whose extension is not in the allow-list is never in the URL
\* list and no download task is ever dispatched for it; an item that has only
\* such files gets no directory.
C11_ExtensionFilter ==
    /\ pc \in {"url", "acquire", "infocopy", "inforename"} =>
            \A k \in DOMAIN CurURLs : CurURLs[k].id \notin FilteredAtts
    /\ \A t \in BagToSet(tasks) : t.att \notin FilteredAtts
    /\ \A i \in OnlyFiltered : DirOf(i.creator, i.date, i.title) \notin dirs

\* downloadPage is past the item with only a .zip file, and the .mp4 of the
\* first page's file item is being downloaded, its .zip is not
C11_Witness ==
    /\ site = "feed"
    /\ lastPage = "cursor1"
    /\ pc = "item" /\ it = 2
    /\ OnlyFiltered # {}
    /\ dirs # {}
    /\ \E t \in BagToSet(tasks) : t.att = "a"

InfoPaths == {p \in Paths : p[2] = "info"}

\* C12: once a file named info exists in an item directory, no step changes
\* its content: no later downloadPage run, no download task.
C12_InfoNeverOverwritten ==
    [][\A p \in InfoPaths : fs[p] # NoFile => fs'[p] = fs[p]]_vars

Computed == pout.dir # <<>>

HasChar(str, c) == \E k \in DOMAIN str : str[k] = c

Count(str, c) == Cardinality({k \in DOMAIN str : str[k] = c})

\* C13: what sanitizePath returns holds no separator and no zero byte, so the
\* item directory is exactly two levels below the destination root; each
\* separator is replaced with a single character and each zero byte removed.
C13_Sanitization ==
    Computed =>
        /\ \A part \in {pout.creator, pout.title} :
                ~HasChar(part, "/") /\ ~HasChar(part, "NUL")
        /\ Len(pout.dir) = 2 /\ pout.dir[1] # DotDot
        /\ Len(pout.creator) = Len(pin.creator) - Count(pin.creator, "NUL")
        /\ Len(pout.title) = Len(pin.title) - Count(pin.title, "NUL")

SameTarget(t, u) == t.dir = u.dir /\ t.name = u.name

\* C14: at no time are two download tasks in flight whose target path, item
\* directory and file name, is the same.
C14_OneWriterPerTarget ==
    \A t, u \in BagToSet(tasks) :
        SameTarget(t, u) => t = u /\ CopiesIn(t, tasks) = 1

Returning == pc = "item" /\ it > Len(CurItems)

AttIds(item) == {URLsOf(item)[k].id : k \in DOMAIN URLsOf(item)}

\* C15, as amended: the lastFetched that downloadPage returns is the value
\* computed for the page's last item with a non-empty URL list, whatever the
\* state of the items before it: true exactly if os.Stat found every URL of
\* that item on disk; and false if the page has no such item.
C15_LastItemOnly ==
    Returning =>
        lastFetched = /\ HasDownloadable(lastPage)
                      /\ run.found = AttIds(LastDownloadable(lastPage))

\* true is returned with a file of an earlier item missing, the page's last
\* item being an article
C15_Witness ==
    /\ Returning
    /\ lastFetched
    /\ CurItems[Len(CurItems)].type = "article"
    /\ \E i \in PageItems(lastPage) \cap Downloadable : ~ItemOnDisk(i)

\* C15, as claimed: ... of the page's last item: true exactly if the number
\* of that item's URLs found on disk is the number of that item's URLs.
C15_Original ==
    Returning =>
        LET last == CurItems[Len(CurItems)]
            found == IF URLsOf(last) = <<>> THEN {} ELSE run.found
        IN  lastFetched = (Cardinality(found) = Len(URLsOf(last)))

AtEmptyCursor == pc = "loop" /\ page > 0 /\ Site[lastPage].NextURL = ""

\* C16: within one poll at most MaxPageBehind pages are fetched; the first
\* fetch is the supporting listing, each later one the next cursor of the page
\* fetched and processed just before it; and after a page with an empty next
\* cursor poll fetches nothing more and returns nil.
C16_PageWalk ==
    /\ Len(fetches) <= cfg.MaxPageBehind
    /\ fetches # <<>> => fetches[1].url = SupportingURL
    /\ \A k \in 2..Len(fetches) :
        /\ fetches[k - 1].ok
        /\ fetches[k].url # ""
        /\ fetches[k].url = Site[fetches[k - 1].url].NextURL
    /\ AtEmptyCursor =>
        /\ ~ENABLED PollFetchPage
        /\ ~ENABLED PollFetchFailed
        /\ ENABLED (PollFinished /\ pollErr' = Nil)

\* a sweep allowed two pages has returned nil after the one page there is
C16_Witness ==
    /\ site = "single"
    /\ cfg.MaxPageBehind = 2
    /\ pc = "ret" /\ fetchAll
    /\ pollErr = Nil
    /\ fetches = <<[url |-> SupportingURL, ok |-> TRUE]>>
    /\ page = 1

\* C17: a slot is taken for each download task before it is launched and
\* given back by the task when it ends, on every outcome: the slots held are
\* as many as the tasks in flight, and all are free once every task has ended.
C17_SlotAccounting ==
    /\ held = InFlight
    /\ held <= SemaSize(cfg)
    /\ tasks = EmptyBag => held = 0

\* every task has ended, one without leaving its file and one with it, and no
\* slot is held
C17_Witness ==
    /\ site = "feed"
    /\ cfg.MaxRetries = 2
    /\ pc = "tick"
    /\ tasks = EmptyBag /\ held = 0
    /\ \E p \in Paths : p[2] # "info" /\ fs[p] = NoFile
    /\ \E p \in Paths : fs[p].kind = "body"

\* a download task ends and leaves no file: its download, its create, its copy
\* or its rename failed
TaskFailedStep == BagCardinality(tasks') < BagCardinality(tasks) /\ fs' = fs

\* downloadPage leaves an item without an info file to show for it
InfoFailedStep ==
    /\ pc \in {"url", "infocopy", "inforename"}
    /\ it' # it
    /\ fs'[<<CurDir, "info">>] = NoFile

\* C18: a failed download, file write or info write is no error of
\* downloadPage, which returns an error only for a directory it could not
\* make; the failing task gives its slot back and touches neither downloadPage
\* nor another task; after a failed info write downloadPage is at the next
\* item as after a written one.
C18_FailureIsolation ==
    /\ [](pollErr.kind \in {"nil", "get", "mkdir"})
    /\ [][/\ TaskFailedStep =>
                /\ mainVars' = mainVars /\ dlVars' = dlVars /\ dirs' = dirs
                /\ held' = held - 1
                /\ \E t \in BagToSet(tasks) : tasks' = tasks (-) SetToBag({t})
          /\ InfoFailedStep =>
                /\ pc' = "item" /\ it' = it + 1
                /\ pollErr' = pollErr
                /\ tasks' = tasks /\ held' = held /\ fs' = fs]_vars

\* a sweep has returned nil over an item whose info file and one image failed
\* and whose other image is written
C18_Witness ==
    /\ pc = "ret" /\ fetchAll /\ pollErr = Nil
    /\ tasks = EmptyBag
    /\ \E i \in Downloadable :
        /\ ItemDir(i) \in dirs
        /\ ~Exists(ItemDir(i), "info")
        /\ \E m \in AttNames(i) : ~Exists(ItemDir(i), m)
        /\ \E m \in AttNames(i) : fs[<<ItemDir(i), m>>].kind = "body"

\* downloadPage is at a URL whose file name os.Stat finds in the directory
AtFetchedURL ==
    /\ pc = "url"
    /\ ui <= Len(CurURLs)
    /\ Exists(CurDir, Base(CurAtt.url))

\* C19: at a URL whose file name exists in the item directory, downloadPage's
\* step is to count it as fetched and go to the next URL: it takes no slot,
\* launches no task and leaves the file as it is.
C19_ExistingFileSkipped ==
    [][(AtFetchedURL /\ <<pc, ui>>' # <<pc, ui>>) =>
            /\ fetchedItems' = fetchedItems + 1
            /\ ui' = ui + 1 /\ pc' = "url"
            /\ held' = held /\ tasks' = tasks
            /\ fs' = fs]_vars

\* the first URL of an item was found on disk, left by an earlier run, and
\* counted, and nothing was launched
C19_Witness ==
    /\ pc = "url" /\ ui = 2
    /\ fetchedItems = 1
    /\ run.found = {CurURLs[1].id}
    /\ fs[<<CurDir, Base(CurURLs[1].url)>>].kind = "old"
    /\ tasks = EmptyBag /\ held = 0

\* downloadPage is at an item it skips: no body, an article, or no URL left
AtSkippedItem ==
    /\ pc = "item"
    /\ it <= Len(CurItems)
    /\ CurURLs = <<>>

\* C20: at an item with no attachment body, an article or an item whose URL
\* list is empty, downloadPage's step is to go to the next item: no directory,
\* no info file, no task, no error, lastFetched as before; and of a page made
\* of such items only downloadPage returns lastFetched = false and no error.
C20_SkippedItemNoEffect ==
    /\ []((Returning /\ ~HasDownloadable(lastPage)) => ~lastFetched /\ pollErr = Nil)
    /\ [][(AtSkippedItem /\ it' # it) =>
            /\ it' = it + 1 /\ pc' = "item"
            /\ lastFetched' = lastFetched
            /\ pollErr' = pollErr
            /\ dirs' = dirs /\ fs' = fs
            /\ tasks' = tasks /\ held' = held]_vars

\* the page of skipped items has been gone through: the directories are those
\* of the first page's items, and nothing was launched
C20_Witness ==
    /\ site = "feed"
    /\ lastPage = "cursor1"
    /\ Returning
    /\ ~lastFetched
    /\ dirs # {}
    /\ \A i \in PageItems("cursor1") : ItemDir(i) \notin dirs
    /\ tasks = EmptyBag

\* writeText's writeTmp call returns from the failed io.Copy
InfoCopyFailedStep == pc = "infocopy" /\ pc' = "item"

\* task t's writeTmp call returns from the failed io.Copy
TaskCopyFailedStep(t) == t.st = "copy" /\ tasks' = tasks (-) SetToBag({t})

\* what C21 says of every part but the temp file, and of the temp file with
\* the verdict of os.Remove in left
CopyFailureLeaves(left) ==
    /\ InfoCopyFailedStep =>
            /\ wtmp' \in left
            /\ fs' = fs
            /\ ~clean'
    /\ \A t \in BagToSet(tasks) : TaskCopyFailedStep(t) =>
            /\ fs' = fs
            /\ ~clean'

\* os.Rename is reached with a temp file the copy has filled, and never else
RenameOnlyFull ==
    /\ pc = "inforename" => wtmp = "full"
    /\ \A t \in BagToSet(tasks) : t.st = "rename" => t.tmp = "full"

\* C21: when io.Copy fails in writeTmp, os.Remove is called on the temp file
\* and its verdict dropped, so the temp file is gone or left behind half
\* written and closed; no rename is done, the destination is as it was, and
\* the failure is returned.
C21_CopyFailureClean ==
    /\ []RenameOnlyFull
    /\ [][CopyFailureLeaves({"none", "stuck"})]_vars

\* C21 as stated: the temp file is removed whenever the copy fails
C21_Original ==
    /\ []RenameOnlyFull
    /\ [][CopyFailureLeaves({"none"})]_vars

\* the copy of an item's info text has failed and os.Remove has not removed
\* the temp file; the item has no info file and downloadPage has moved on
C21_Witness ==
    /\ pc = "item" /\ it > 1
    /\ wtmp = "stuck"
    /\ ~clean
    /\ ~Exists(ItemDir(CurItems[it - 1]), "info")
    /\ ItemDir(CurItems[it - 1]) \in dirs

\* poll has been called and has not returned
InPoll == pc \in {"loop", "item", "url", "acquire", "infocopy", "inforename"}

\* C22: with every call returning and the goroutines scheduled fairly, a poll
\* that has begun returns, whatever the configuration.
C22_PollTerminates == InPoll ~> (pc = "ret")

\* with a semaphore of one slot or more a poll that has begun returns
C22_PollTerminatesWithSlots == (InPoll /\ SemaSize(cfg) >= 1) ~> (pc = "ret")

\* main's goroutine is in c.sema.Acquire with no slot to get and nobody to
\* give one back
AcquireBlockedForever ==
    /\ pc = "acquire"
    /\ held = SemaSize(cfg)
    /\ tasks = EmptyBag

\* poll reaches c.sema.Acquire only when some slot exists or will be freed
C22_AcquireNeverStuck == ~AcquireBlockedForever

=============================================================================
